---- MODULE Spec2Model ----
(***************************************************************************)
(* Model of src/script.js: the testimonial carousel (initTestimonials),   *)
(* its swipe gestures (initSwipe) and the contact form (initContactForm). *)
(* The page is single-threaded: every event handler and timer callback    *)
(* runs to completion, so each one is one action.                         *)
(***************************************************************************)
EXTENDS Integers, Sequences, FiniteSets, TLC

(***************************************************************************)
(* Bounds of the model and constants of the program                       *)
(***************************************************************************)
\* largest number of .testimonial elements in the markup
MaxN == 3
\* goTo is applied to arguments in -MaxArg..MaxArg under GoToSpec
MaxArg == 7
\* the clock advances in steps of sliderInterval \div StepsPerInterval ms
StepsPerInterval == 2
\* cap on outstanding fetch requests (only reached when the guard is broken)
MaxInflight == 2
\* longest e-mail text drawn for the form
MaxEmailLen == 5
\* longest name / message text drawn for the form
MaxTextLen == 1
MaxItems == 2
MaxMarks == 2
MaxTarget == 4

\* runCounter divides the target by 100
Steps == 100
\* significand bits of a JavaScript number
Precision == 53

\* CONFIG.sliderInterval
sliderInterval == 5000
\* the literal 50 of handleEnd
SwipeThreshold == 50

\* pointer x coordinates of gesture events (differences 1, 10, 50, 51, 60, 61)
Coords == {140, 150, 200, 201}

\* the elements initTestimonials and initSwipe look up by id
Elements == {"slider", "prev", "next", "dots"}

VARIABLES
    markup,       \* which of Elements exist in the document (fixed)
    N,            \* items.length: number of .testimonial elements (fixed)
    index,        \* let index
    interval,     \* let interval: the timer id held by the closure, 0 = undefined
    timers,       \* the browser's armed interval timers: id -> ms until it fires
    slideActive,  \* the slides whose classList holds 'active'
    dotActive,    \* the dots whose classList holds 'active'
    hover,        \* the pointer is over the slider
    startX,       \* let startX
    endX,         \* let endX
    sinceNav,     \* ms since the last goTo (or since construction), capped
    threw,        \* the last handler ended in an uncaught exception
    lastOp,       \* the last event delivered
    arg,          \* its argument: a coordinate, a dot, a goTo argument, a field
    calls,        \* the carousel functions the last event invoked, in order
    values,       \* the form inputs' values
    errors,       \* errors[f], as shown in #f-error
    isSubmitting, \* let isSubmitting
    status,       \* #form-status textContent
    inflight,     \* fetch requests not yet settled
    themeAttr,    \* the data-theme attribute of the document element
    stored,       \* localStorage's 'theme' entry, "none" when there is none
    reducedMotion,\* prefersReducedMotion()
    cat,          \* data-category of each gallery item (fixed)
    btnMarkup,    \* the filter buttons the markup marks 'active' (fixed)
    inView,       \* the reveal targets intersecting the viewport
    observed,     \* the targets the scroll-reveal observer still observes
    revealed,     \* the targets whose classList holds 'revealed'
    marks,        \* how often the scroll-reveal callback marked each target
    display,      \* style.display of each gallery item, "" while unset
    activeBtn,    \* the filter buttons whose classList holds 'active'
    selected,     \* data-filter of the last button clicked, "none" before
    statTarget,   \* +el.getAttribute('data-target') of the .stat__num element
    statCur,      \* let current, a binary64 number
    statText,     \* the element's textContent, -1 while it is the markup's
    statCalls,    \* calls of update() so far
    statPhase     \* "waiting" for the viewport, "running" or "done"

carouselVars == <<index, interval, timers, slideActive, dotActive>>
swipeVars == <<startX, endX>>
formVars == <<values, errors, isSubmitting, status, inflight>>
themeVars == <<themeAttr, stored>>
revealVars == <<inView, observed, revealed, marks>>
galleryVars == <<display, activeBtn, selected>>
statVars == <<statCur, statText, statCalls, statPhase>>
pageVars == <<themeVars, reducedMotion, cat, btnMarkup, revealVars, galleryVars,
              statTarget, statVars>>
vars == <<markup, N, index, interval, timers, slideActive, dotActive, hover,
          startX, endX, sinceNav, threw, lastOp, arg, calls,
          values, errors, isSubmitting, status, inflight,
          themeAttr, stored, reducedMotion, cat, btnMarkup, inView, observed,
          revealed, marks, display, activeBtn, selected,
          statTarget, statCur, statText, statCalls, statPhase>>

Min(a, b) == IF a < b THEN a ELSE b
Max(a, b) == IF a > b THEN a ELSE b

(***************************************************************************)
(* initTestimonials: construction                                         *)
(***************************************************************************)
\* How initTestimonials ends for a given document: "threw256" ($$ on a null
\* slider), "returned" (no items), "threw266" (appendChild on a null dots
\* container), "threw289"/"threw290" (addEventListener on a null button),
\* "done".
TestimonialsOutcome(m, n) ==
    IF "slider" \notin m THEN "threw256"
    ELSE IF n = 0 THEN "returned"
    ELSE IF "dots" \notin m THEN "threw266"
    ELSE IF "prev" \notin m THEN "threw289"
    ELSE IF "next" \notin m THEN "threw290"
    ELSE "done"

Outcome == TestimonialsOutcome(markup, N)
\* createDots ran to its end: one dot per item, each with a click listener.
\* update() reaches the dots through $$('.testimonials__dot'); the document
\* holds no dots but those createDots appended.
DotsCreated == IF Outcome \in {"threw289", "threw290", "done"} THEN N ELSE 0
PrevWired == Outcome \in {"threw290", "done"}
NextWired == Outcome = "done"
HoverWiredEarly == Outcome \in {"returned", "done"}
HoverWired == Outcome = "done"
\* init() reaches initSwipe only if initTestimonials did not throw
SwipeWired == Outcome \in {"returned", "done"}
Constructed == Outcome = "done"

(***************************************************************************)
(* Timers: setInterval / clearInterval                                    *)
(***************************************************************************)
FreshId(tm) == CHOOSE id \in 1..(Cardinality(DOMAIN tm) + 1) : id \notin DOMAIN tm

ClearInterval(tm, h) == [t \in DOMAIN tm \ {h} |-> tm[t]]

SetInterval(tm, delay) ==
    [t \in DOMAIN tm \cup {FreshId(tm)} |-> IF t \in DOMAIN tm THEN tm[t] ELSE delay]

\* resetInterval, on the timers: clearInterval(interval); setInterval(...)
ResetNoClear(tm, h) == SetInterval(tm, sliderInterval)
ResetTimers(tm, h) == SetInterval(ClearInterval(tm, h), sliderInterval)

\* resetInterval, on the handle: interval = the id setInterval returned
ResetHandle(tm, h) == FreshId(ClearInterval(tm, h))

(***************************************************************************)
(* goTo / update                                                          *)
(***************************************************************************)
\* JavaScript's %: the remainder takes the sign of the dividend
JsRem(a, b) == IF a >= 0 THEN a % b ELSE -((-a) % b)

\* index = (i + items.length) % items.length
NormNoOffset(i, n) == JsRem(i, n)
NormIndex(i, n) == JsRem(i + n, n)

\* classList.toggle('active', force)
ToggleAddOnly(set, k, force) == IF force THEN set \cup {k} ELSE set
Toggle(set, k, force) == IF force THEN set \cup {k} ELSE set \ {k}

\* forEach((el, i) => el.classList.toggle('active', i === idx)) over n elements
RECURSIVE ToggleAll(_, _, _)
ToggleAll(set, idx, n) ==
    IF n = 0 THEN set
    ELSE ToggleAll(Toggle(set, n - 1, n - 1 = idx), idx, n - 1)

\* goTo(i), run with the browser's timers being tm
GoToNoReset(i, tm) ==
    /\ index' = NormIndex(i, N)
    /\ slideActive' = ToggleAll(slideActive, index', N)
    /\ dotActive' = ToggleAll(dotActive, index', DotsCreated)
    /\ timers' = tm
    /\ interval' = interval
    /\ sinceNav' = 0
GoTo(i, tm) ==
    /\ index' = NormIndex(i, N)
    /\ slideActive' = ToggleAll(slideActive, index', N)
    /\ dotActive' = ToggleAll(dotActive, index', DotsCreated)
    /\ timers' = ResetTimers(tm, interval)
    /\ interval' = ResetHandle(tm, interval)
    /\ sinceNav' = 0

\* nextSlide / prevSlide
NextSlideStuck(tm) == GoTo(index, tm) /\ calls' = <<<<"nextSlide", 0>>, <<"goTo", index>>>>
NextSlide(tm) == GoTo(index + 1, tm) /\ calls' = <<<<"nextSlide", 0>>, <<"goTo", index + 1>>>>
PrevSlide(tm) == GoTo(index - 1, tm) /\ calls' = <<<<"prevSlide", 0>>, <<"goTo", index - 1>>>>

NoNav == UNCHANGED <<carouselVars, sinceNav>> /\ calls' = <<>>


(***************************************************************************)
(* Carousel events                                                        *)
(***************************************************************************)
Event(name, a) == lastOp' = name /\ arg' = a /\ UNCHANGED <<markup, N, pageVars>>

\* click on #testimonials-prev: prevSlide, if the listener of line 289 exists
ClickPrev ==
    /\ "prev" \in markup
    /\ Event("clickPrev", 0)
    /\ IF PrevWired THEN PrevSlide(timers) ELSE NoNav
    /\ threw' = FALSE
    /\ UNCHANGED <<hover, swipeVars, formVars>>

\* click on #testimonials-next: nextSlide, if the listener of line 290 exists
ClickNext ==
    /\ "next" \in markup
    /\ Event("clickNext", 0)
    /\ IF NextWired THEN NextSlide(timers) ELSE NoNav
    /\ threw' = FALSE
    /\ UNCHANGED <<hover, swipeVars, formVars>>

\* click on the k-th dot: goTo(k)
ClickDot(k) ==
    /\ k \in 0..(DotsCreated - 1)
    /\ Event("clickDot", k)
    /\ GoTo(k, timers)
    /\ calls' = <<<<"goTo", k>>>>
    /\ threw' = FALSE
    /\ UNCHANGED <<hover, swipeVars, formVars>>

\* mouseenter on the slider: clearInterval(interval)
PauseNoClear(tm, h) == tm
PauseTimers(tm, h) == ClearInterval(tm, h)

MouseEnter ==
    /\ "slider" \in markup
    /\ Event("mouseenter", 0)
    /\ hover' = TRUE
    /\ timers' = IF HoverWired THEN PauseTimers(timers, interval) ELSE timers
    /\ calls' = <<>>
    /\ threw' = FALSE
    /\ UNCHANGED <<index, interval, slideActive, dotActive, sinceNav, swipeVars, formVars>>

\* mouseleave on the slider: resetInterval
MouseLeave ==
    /\ "slider" \in markup
    /\ Event("mouseleave", 0)
    /\ hover' = FALSE
    /\ timers' = IF HoverWired THEN ResetTimers(timers, interval) ELSE timers
    /\ interval' = IF HoverWired THEN ResetHandle(timers, interval) ELSE interval
    /\ calls' = <<>>
    /\ threw' = FALSE
    /\ UNCHANGED <<index, slideActive, dotActive, sinceNav, swipeVars, formVars>>

\* an armed interval timer fires: the browser schedules its next firing and
\* runs the callback, nextSlide
Tick(t) ==
    /\ t \in DOMAIN timers
    /\ timers[t] = 0
    /\ Event("tick", t)
    /\ NextSlide([timers EXCEPT ![t] = sliderInterval])
    /\ threw' = FALSE
    /\ UNCHANGED <<hover, swipeVars, formVars>>

\* the clock advances, at most up to the next firing that is still ahead
TimeStep == sliderInterval \div StepsPerInterval
Ahead == {timers[t] : t \in DOMAIN timers} \ {0}
Elapse ==
    IF Ahead = {} THEN TimeStep
    ELSE Min(TimeStep, CHOOSE r \in Ahead : \A q \in Ahead : r <= q)

TimePasses ==
    /\ Event("time", 0)
    /\ timers' = [t \in DOMAIN timers |-> Max(0, timers[t] - Elapse)]
    /\ sinceNav' = Min(sliderInterval, sinceNav + Elapse)
    /\ calls' = <<>>
    /\ threw' = FALSE
    /\ UNCHANGED <<index, interval, slideActive, dotActive, hover, swipeVars, formVars>>

(***************************************************************************)
(* initSwipe                                                              *)
(***************************************************************************)
\* handleStart (touchstart / mousedown on the slider); x is touches[0].clientX
\* or clientX
GestureStart(x) ==
    /\ "slider" \in markup
    /\ Event("gestureStart", x)
    /\ startX' = IF SwipeWired THEN x ELSE startX
    /\ NoNav
    /\ threw' = FALSE
    /\ UNCHANGED <<endX, hover, formVars>>

\* the buttons handleEnd clicks, in order; the two conditions exclude each
\* other, so at most one button is clicked
SwipeClicksInclusive(sx, ex) ==
    (IF sx - ex >= SwipeThreshold THEN <<"next">> ELSE <<>>)
        \o (IF ex - sx >= SwipeThreshold /\ sx - ex < SwipeThreshold THEN <<"prev">> ELSE <<>>)
SwipeClicks(sx, ex) ==
    (IF sx - ex > SwipeThreshold THEN <<"next">> ELSE <<>>)
        \o (IF ex - sx > SwipeThreshold THEN <<"prev">> ELSE <<>>)

\* handleEnd (touchend / mouseup on the slider); .click() on a button that
\* is not in the document is a TypeError
GestureEnd(x) ==
    /\ "slider" \in markup
    /\ Event("gestureEnd", x)
    /\ IF ~SwipeWired THEN NoNav /\ threw' = FALSE /\ UNCHANGED endX
       ELSE /\ endX' = x
            /\ LET clicks == SwipeClicks(startX, x) IN
               IF clicks = <<>> THEN NoNav /\ threw' = FALSE
               ELSE IF Head(clicks) \notin markup THEN NoNav /\ threw' = TRUE
               ELSE /\ threw' = FALSE
                    /\ IF Head(clicks) = "next"
                       THEN (IF NextWired THEN NextSlide(timers) ELSE NoNav)
                       ELSE (IF PrevWired THEN PrevSlide(timers) ELSE NoNav)
    /\ UNCHANGED <<startX, hover, formVars>>

\* goTo applied to an arbitrary integer (no caller in the page passes one
\* outside -1..N)
GoToCall(i) ==
    /\ Outcome \notin {"threw256", "returned"}
    /\ Event("goTo", i)
    /\ GoTo(i, timers)
    /\ calls' = <<<<"goTo", i>>>>
    /\ threw' = FALSE
    /\ UNCHANGED <<hover, swipeVars, formVars>>

(***************************************************************************)
(* initContactForm                                                        *)
(***************************************************************************)
\* const fields
Fields == {"name", "email", "message"}

\* Texts are sequences of characters.
Alphabet == {"a", "@", ".", " "}
TextAlphabet == {"a", " "}
Texts(A, n) == UNION {[1..k -> A] : k \in 0..n}

IsSpace(c) == c = " "

\* String.prototype.trim
RECURSIVE TrimStart(_)
TrimStart(s) == IF s # <<>> /\ IsSpace(Head(s)) THEN TrimStart(Tail(s)) ELSE s
RECURSIVE TrimEnd(_)
TrimEnd(s) ==
    IF s # <<>> /\ IsSpace(s[Len(s)]) THEN TrimEnd(SubSeq(s, 1, Len(s) - 1)) ELSE s
Trim(s) == TrimEnd(TrimStart(s))

\* s[lo..hi] matches [^\s@]+
Segment(s, lo, hi) == lo <= hi /\ \A k \in lo..hi : ~IsSpace(s[k]) /\ s[k] # "@"

\* /^[^\s@]+@[^\s@]+\.[^\s@]+$/.test(s)
MatchesEmail(s) ==
    \E i \in 1..Len(s), j \in 1..Len(s) :
        /\ s[i] = "@"
        /\ s[j] = "."
        /\ Segment(s, 1, i - 1)
        /\ Segment(s, i + 1, j - 1)
        /\ Segment(s, j + 1, Len(s))

\* the body of validate's loop for field f: errors[f], "" when there is none
FieldErrorNoShape(f, v) ==
    IF Trim(v) = <<>> THEN "required" ELSE ""
FieldError(f, v) ==
    LET value == Trim(v) IN
    IF value = <<>> THEN "required"
    ELSE IF f = "email" /\ ~MatchesEmail(value) THEN "invalid"
    ELSE ""

\* validate: the errors it stores and shows, and its result
ValidateErrors(vals) == [f \in Fields |-> FieldError(f, vals[f])]
Valid(errs) == \A f \in Fields : errs[f] = ""

\* the guard of submit: if (!validate() || isSubmitting) return
CanSendUnguarded(valid, submitting) == valid
CanSend(valid, submitting) == valid /\ ~submitting

\* init() reaches initContactForm only if initTestimonials did not throw;
\* the form and its inputs are in the document
FormWired == Outcome \in {"returned", "done"}

CarouselIdle ==
    UNCHANGED <<carouselVars, sinceNav, hover, swipeVars>>

\* submit event on the form: submit() up to its await. The payload is local
\* to the call and not kept. inflight stays below MaxInflight as long as the
\* guard holds; the cap only keeps a broken guard finite.
Submit ==
    /\ FormWired
    /\ inflight < MaxInflight
    /\ Event("submit", 0)
    /\ errors' = ValidateErrors(values)
    /\ IF CanSend(Valid(errors'), isSubmitting)
       THEN /\ isSubmitting' = TRUE
            /\ status' = "Sending..."
            /\ inflight' = inflight + 1
            /\ calls' = <<<<"fetch", 0>>>>
       ELSE /\ UNCHANGED <<isSubmitting, status, inflight>>
            /\ calls' = <<>>
    /\ threw' = FALSE
    /\ UNCHANGED values
    /\ CarouselIdle

\* HTTP statuses of the response; 0 stands for fetch rejecting
Responses == {0, 200, 204, 404, 500}
ResOkOnly200(code) == code = 200
ResOk(code) == code \in 200..299

\* a pending fetch settles: submit() from its await to its end
SettleNoFinally(code) ==
    /\ inflight > 0
    /\ Event("settle", code)
    /\ IF ResOk(code)
       THEN /\ status' = "Message sent"
            /\ values' = [f \in Fields |-> <<>>]
            /\ isSubmitting' = FALSE
       ELSE /\ status' = "Failed to send"
            /\ UNCHANGED <<values, isSubmitting>>
    /\ inflight' = inflight - 1
    /\ calls' = <<>>
    /\ threw' = FALSE
    /\ UNCHANGED errors
    /\ CarouselIdle
Settle(code) ==
    /\ inflight > 0
    /\ Event("settle", code)
    /\ IF ResOk(code)
       THEN /\ status' = "Message sent"
            /\ values' = [f \in Fields |-> <<>>]
       ELSE /\ status' = "Failed to send"
            /\ UNCHANGED values
    /\ isSubmitting' = FALSE
    /\ inflight' = inflight - 1
    /\ calls' = <<>>
    /\ threw' = FALSE
    /\ UNCHANGED errors
    /\ CarouselIdle

\* blur on an input: validate
Blur ==
    /\ FormWired
    /\ Event("blur", 0)
    /\ errors' = ValidateErrors(values)
    /\ calls' = <<>>
    /\ threw' = FALSE
    /\ UNCHANGED <<values, isSubmitting, status, inflight>>
    /\ CarouselIdle

\* the user edits an input
ValidEmail == <<"a", "@", "a", ".", "a">>
Typed(f) ==
    IF f = "email" THEN {<<>>, <<"a">>, ValidEmail, <<" ">> \o ValidEmail}
    ELSE {<<>>, <<" ">>, <<"a">>}

Input(f, v) ==
    /\ Event("input", 0)
    /\ values' = [values EXCEPT ![f] = v]
    /\ calls' = <<>>
    /\ threw' = FALSE
    /\ UNCHANGED <<errors, isSubmitting, status, inflight>>
    /\ CarouselIdle

(***************************************************************************)
(* Specifications                                                         *)
(***************************************************************************)
(***************************************************************************)
(* Theme, scroll reveal and gallery filter                                 *)
(***************************************************************************)
\* gallery items 1..MaxItems; target 0 is a reveal target outside the gallery
Items == 1..MaxItems
Targets == 0..MaxItems
Categories == {"a", "b"}
\* one filter button per data-filter value
Buttons == {"all"} \cup Categories

PageEvent(name, a) ==
    /\ lastOp' = name
    /\ arg' = a
    /\ UNCHANGED <<markup, N, carouselVars, hover, swipeVars, sinceNav, threw,
                   calls, formVars, cat, btnMarkup, statTarget>>

\* initTheme: saved || system
InitialThemeSystem(saved, sysDark) == IF sysDark THEN "dark" ELSE "light"
InitialTheme(saved, sysDark) ==
    IF saved # "none" THEN saved
    ELSE IF sysDark THEN "dark" ELSE "light"

\* the toggle's next value
FlipTheme(current) == IF current = "dark" THEN "light" ELSE "dark"

\* click on #theme-toggle
ThemeToggle ==
    /\ themeAttr' = FlipTheme(themeAttr)
    /\ stored' = FlipTheme(themeAttr)
    /\ PageEvent("toggle", 0)
    /\ UNCHANGED <<reducedMotion, revealVars, galleryVars, statVars>>

\* observer.unobserve(entry.target)
UnobserveNothing(obs, t) == obs
Unobserve(obs, t) == obs \ {t}

\* an item with display none has no box and intersects nothing
Hidden(t) == t \in Items /\ display[t] = "none"

\* target t scrolls into the viewport; the scroll-reveal observer's callback
\* runs if it still observes t
Enter(t) ==
    /\ t \notin inView
    /\ ~Hidden(t)
    /\ marks[t] < MaxMarks
    /\ inView' = inView \cup {t}
    /\ IF t \in observed
       THEN /\ revealed' = revealed \cup {t}
            /\ observed' = Unobserve(observed, t)
            /\ marks' = [marks EXCEPT ![t] = @ + 1]
       ELSE UNCHANGED <<revealed, observed, marks>>
    /\ PageEvent("enter", t)
    /\ UNCHANGED <<themeVars, reducedMotion, galleryVars, statVars>>

\* target t leaves the viewport: the callback sees isIntersecting false
Exit(t) ==
    /\ t \in inView
    /\ inView' = inView \ {t}
    /\ PageEvent("exit", t)
    /\ UNCHANGED <<themeVars, reducedMotion, observed, revealed, marks, galleryVars, statVars>>

\* filter: const show = category === 'all' || cat === category
ShowsExact(category, c) == c = category
Shows(category, c) == category = "all" \/ c = category

\* click on the filter button whose data-filter is b
FilterClick(b) ==
    /\ activeBtn' = (activeBtn \ Buttons) \cup {b}
    /\ display' = [i \in Items |-> IF Shows(b, cat[i]) THEN "block" ELSE "none"]
    /\ revealed' = revealed \cup {i \in Items : Shows(b, cat[i])}
    /\ inView' = inView \ {i \in Items : ~Shows(b, cat[i])}
    /\ selected' = b
    /\ PageEvent("filter", 0)
    /\ UNCHANGED <<themeVars, reducedMotion, observed, marks, statVars>>

(***************************************************************************)
(* Stats counter: JavaScript numbers are binary64                          *)
(***************************************************************************)
\* a positive binary64 number is [e, m]: m holds the 53 significand bits,
\* leading 1 first, and the value is m * 2^(e - 52); Zero has no bits
Zero == [e |-> 0, m |-> <<>>]

RECURSIVE Pow2(_)
Pow2(k) == IF k = 0 THEN 1 ELSE 2 * Pow2(k - 1)

Zeros(k) == [i \in 1..k |-> 0]

RECURSIVE BitsVal(_)
BitsVal(b) == IF b = <<>> THEN 0 ELSE 2 * BitsVal(SubSeq(b, 1, Len(b) - 1)) + b[Len(b)]

AnyOne(b) == \E k \in 1..Len(b) : b[k] = 1

\* the carry into position i of x + y (position Len is the lowest): some
\* lower position generates one and all between pass it on
Carry(x, y, i) ==
    \E j \in (i + 1)..Len(x) :
        /\ x[j] + y[j] = 2
        /\ \A k \in (i + 1)..(j - 1) : x[k] + y[k] = 1

\* x + y on bits of equal length: <<carry out, bits>>
AddBits(x, y) ==
    <<IF Carry(x, y, 0) THEN 1 ELSE 0,
      [i \in 1..Len(x) |-> (x[i] + y[i] + (IF Carry(x, y, i) THEN 1 ELSE 0)) % 2]>>

\* b + 1: <<carry out, bits>>
IncBits(b) == AddBits(b, [i \in 1..Len(b) |-> IF i = Len(b) THEN 1 ELSE 0])

\* round-to-nearest, ties-to-even, of the exact value b * 2^(e - Len(b) + 1)
\* (b starts with 1, at least Precision bits); sticky tells of a nonzero rest
Round(e, b, sticky) ==
    LET keep == SubSeq(b, 1, Precision)
        guard == IF Len(b) > Precision THEN b[Precision + 1] ELSE 0
        rest == sticky \/ AnyOne(SubSeq(b, Precision + 2, Len(b)))
        up == guard = 1 /\ (rest \/ keep[Precision] = 1)
        inc == IncBits(keep)
    IN IF ~up THEN [e |-> e, m |-> keep]
       ELSE IF inc[1] = 1 THEN [e |-> e + 1, m |-> <<1>> \o Zeros(Precision - 1)]
       ELSE [e |-> e, m |-> inc[2]]

\* 2^k modulo den, by squaring
RECURSIVE Pow2Mod(_, _)
Pow2Mod(k, den) ==
    IF k = 0 THEN 1 % den
    ELSE LET h == Pow2Mod(k \div 2, den)
         IN (h * h * (IF k % 2 = 1 THEN 2 ELSE 1)) % den

\* the remainder of the long division rem / den after k quotient bits
DivRem(rem, den, k) == (rem * Pow2Mod(k, den)) % den

\* the first n quotient bits of rem / den, rem < den
DivBits(rem, den, n) ==
    [i \in 1..n |-> IF 2 * DivRem(rem, den, i - 1) >= den THEN 1 ELSE 0]

\* floor(log2(num / den)) for num, den >= 1
RECURSIVE Log2Floor(_, _)
Log2Floor(num, den) ==
    IF num < den THEN Log2Floor(2 * num, den) - 1
    ELSE IF num >= 2 * den THEN Log2Floor(num, 2 * den) + 1
    ELSE 0

\* the binary64 quotient num / den of two integers, num >= 0, den >= 1
Div(num, den) ==
    IF num = 0 THEN Zero
    ELSE LET e == Log2Floor(num, den)
             n == IF e < 0 THEN num * Pow2(-e) ELSE num
             d == IF e > 0 THEN den * Pow2(e) ELSE den
         IN Round(e, <<1>> \o DivBits(n - d, d, Precision), DivRem(n - d, d, Precision) # 0)

FromInt(k) == Div(k, 1)

\* the binary64 sum of two numbers >= 0
Add(a, b) ==
    IF a = Zero THEN b
    ELSE IF b = Zero THEN a
    ELSE LET hi == IF a.e >= b.e THEN a ELSE b
             lo == IF a.e >= b.e THEN b ELSE a
             d == hi.e - lo.e
             sum == AddBits(hi.m \o Zeros(d), Zeros(d) \o lo.m)
         IN IF sum[1] = 1 THEN Round(hi.e + 1, <<1>> \o sum[2], FALSE)
            ELSE Round(hi.e, sum[2], FALSE)

\* x < y on bits of equal length
LexLess(x, y) ==
    \E k \in 1..Len(x) :
        /\ x[k] < y[k]
        /\ \A j \in 1..(k - 1) : x[j] = y[j]

\* a < b for numbers >= 0
Less(a, b) ==
    IF b = Zero THEN FALSE
    ELSE IF a = Zero THEN TRUE
    ELSE a.e < b.e \/ (a.e = b.e /\ LexLess(a.m, b.m))

\* Math.ceil of a number >= 0 below 2^31
Ceil(a) ==
    IF a = Zero THEN 0
    ELSE IF a.e < 0 THEN 1
    ELSE BitsVal(SubSeq(a.m, 1, a.e + 1))
         + (IF AnyOne(SubSeq(a.m, a.e + 2, Precision)) THEN 1 ELSE 0)

\* runCounter: const increment = target / 100
Increment(target) == Div(target, Steps)

\* update()
Update ==
    /\ statCur' = Add(statCur, Increment(statTarget))
    /\ statCalls' = statCalls + 1
    /\ IF Less(statCur', FromInt(statTarget))
       THEN statText' = Ceil(statCur') /\ statPhase' = "running"
       ELSE statText' = statTarget /\ statPhase' = "done"

StatEvent(name) ==
    /\ lastOp' = name
    /\ arg' = 0
    /\ UNCHANGED <<markup, N, carouselVars, hover, swipeVars, sinceNav, threw,
                   calls, formVars, themeVars, reducedMotion, cat, btnMarkup,
                   revealVars, galleryVars, statTarget>>

\* the element is half in the viewport: runCounter, with its first update()
StatEnter ==
    /\ statPhase = "waiting"
    /\ Update
    /\ StatEvent("statEnter")

\* requestAnimationFrame(update) comes due
Frame ==
    /\ statPhase = "running"
    /\ Update
    /\ StatEvent("frame")

\* what init() leaves of the page: the theme from storage or the system, the
\* observer on every target unless reduced motion is requested, the gallery
\* as the markup has it
PageLoaded(saved, sysDark, reduced) ==
    /\ themeAttr = InitialTheme(saved, sysDark)
    /\ stored = saved
    /\ reducedMotion = reduced
    /\ inView = {}
    /\ observed = IF reduced THEN {} ELSE Targets
    /\ revealed = {}
    /\ marks = [t \in Targets |-> 0]
    /\ display = [i \in Items |-> ""]
    /\ activeBtn = btnMarkup
    /\ selected = "none"
    /\ statCur = Zero
    /\ statText = IF reduced THEN statTarget ELSE -1
    /\ statCalls = 0
    /\ statPhase = IF reduced THEN "done" ELSE "waiting"

\* the page reloads: init() runs again, localStorage survives
Reload ==
    /\ \E sysDark \in BOOLEAN : themeAttr' = InitialTheme(stored, sysDark)
    /\ stored' = stored
    /\ reducedMotion' \in BOOLEAN
    /\ inView' = {}
    /\ observed' = IF reducedMotion' THEN {} ELSE Targets
    /\ revealed' = {}
    /\ marks' = [t \in Targets |-> 0]
    /\ display' = [i \in Items |-> ""]
    /\ activeBtn' = btnMarkup
    /\ selected' = "none"
    /\ statCur' = Zero
    /\ statText' = IF reducedMotion' THEN statTarget ELSE -1
    /\ statCalls' = 0
    /\ statPhase' = IF reducedMotion' THEN "done" ELSE "waiting"
    /\ PageEvent("reload", 0)

\* a page nobody has touched, light theme, default motion
PageAtRest ==
    /\ cat = [i \in Items |-> "a"]
    /\ btnMarkup = {"all"}
    /\ statTarget = 1
    /\ PageLoaded("none", FALSE, FALSE)

EmptyTimers == [t \in {} |-> 0]

FormEmpty ==
    /\ values = [f \in Fields |-> <<>>]
    /\ errors = [f \in Fields |-> ""]
    /\ isSubmitting = FALSE
    /\ status = ""
    /\ inflight = 0

\* the state after init() has run on a document
Init ==
    /\ markup \in SUBSET Elements
    /\ N \in 0..MaxN
    /\ "slider" \notin markup => N = 0
    /\ index = 0
    /\ timers = IF Constructed THEN SetInterval(EmptyTimers, sliderInterval) ELSE EmptyTimers
    /\ interval = IF Constructed THEN FreshId(EmptyTimers) ELSE 0
    /\ slideActive \in SUBSET (0..(N - 1))
    /\ dotActive = IF DotsCreated > 0 THEN {0} ELSE {}
    /\ hover = FALSE
    /\ startX = 0
    /\ endX = 0
    /\ sinceNav = 0
    /\ threw = (Outcome \in {"threw256", "threw266", "threw289", "threw290"})
    /\ lastOp = "init"
    /\ arg = 0
    /\ calls = <<>>
    /\ FormEmpty
    /\ PageAtRest

Next ==
    \/ ClickPrev
    \/ ClickNext
    \/ \E k \in 0..(MaxN - 1) : ClickDot(k)
    \/ MouseEnter
    \/ MouseLeave
    \/ \E t \in DOMAIN timers : Tick(t)
    \/ TimePasses
    \/ \E x \in Coords : GestureStart(x)
    \/ \E x \in Coords : GestureEnd(x)

Spec == Init /\ [][Next]_vars

\* the carousel, with goTo also applied to arbitrary integers
GoToNext ==
    \/ Next
    \/ \E i \in (-MaxArg)..MaxArg : GoToCall(i)

GoToSpec == Init /\ [][GoToNext]_vars

\* the contact form on a page whose carousel is complete, as the user edits,
\* submits and the requests settle
FormInit ==
    /\ Init
    /\ markup = Elements
    /\ N = 1
    /\ slideActive = {0}

FormNext ==
    \/ Submit
    \/ \E code \in Responses : Settle(code)
    \/ Blur
    \/ \E f \in Fields : \E v \in Typed(f) : Input(f, v)

FormSpec == FormInit /\ [][FormNext]_vars

\* validate and submit applied to every combination of field texts
ValidateInit ==
    /\ markup = Elements
    /\ N = 1
    /\ index = 0
    /\ timers = SetInterval(EmptyTimers, sliderInterval)
    /\ interval = FreshId(EmptyTimers)
    /\ slideActive = {0}
    /\ dotActive = {0}
    /\ hover = FALSE
    /\ startX = 0
    /\ endX = 0
    /\ sinceNav = 0
    /\ threw = FALSE
    /\ lastOp = "init"
    /\ arg = 0
    /\ calls = <<>>
    /\ values \in {[f \in Fields |-> IF f = "email" THEN e ELSE IF f = "name" THEN n ELSE m] :
                     e \in Texts(Alphabet, MaxEmailLen),
                     n \in Texts(TextAlphabet, MaxTextLen),
                     m \in {<<>>, <<" ">>, <<"a">>}}
    /\ errors = [f \in Fields |-> ""]
    /\ isSubmitting = FALSE
    /\ status = ""
    /\ inflight = 0
    /\ PageAtRest

ValidateNext ==
    \/ Submit
    \/ \E code \in Responses : Settle(code)
    \/ Blur

ValidateSpec == ValidateInit /\ [][ValidateNext]_vars

\* a complete carousel with its timer freshly armed, left alone by the user:
\* only the clock and the timer act, and an armed timer does fire
AutoInit ==
    /\ markup = Elements
    /\ N \in 1..MaxN
    /\ index \in 0..(N - 1)
    /\ timers = SetInterval(EmptyTimers, sliderInterval)
    /\ interval = FreshId(EmptyTimers)
    /\ \/ index = 0 /\ slideActive \in SUBSET (0..(N - 1))
       \/ slideActive = {index}
    /\ dotActive = {index}
    /\ hover \in BOOLEAN
    /\ startX \in Coords \cup {0}
    /\ endX = 0
    /\ sinceNav = 0
    /\ threw = FALSE
    /\ lastOp = "init"
    /\ arg = 0
    /\ calls = <<>>
    /\ FormEmpty
    /\ PageAtRest

TimerFires == \E t \in DOMAIN timers : Tick(t)

\* the page around a complete one-slide carousel: theme toggle, scrolling,
\* gallery filter and reloads
PageInit ==
    /\ markup = Elements
    /\ N = 1
    /\ index = 0
    /\ timers = SetInterval(EmptyTimers, sliderInterval)
    /\ interval = FreshId(EmptyTimers)
    /\ slideActive = {0}
    /\ dotActive = {0}
    /\ hover = FALSE
    /\ startX = 0
    /\ endX = 0
    /\ sinceNav = 0
    /\ threw = FALSE
    /\ lastOp = "init"
    /\ arg = 0
    /\ calls = <<>>
    /\ FormEmpty
    /\ cat \in [Items -> Categories]
    /\ btnMarkup \in {{}, {"all"}}
    /\ statTarget = 1
    /\ \E saved \in {"none", "dark", "light"}, sysDark \in BOOLEAN, reduced \in BOOLEAN :
          PageLoaded(saved, sysDark, reduced)

PageNext ==
    \/ ThemeToggle
    \/ \E t \in Targets : Enter(t)
    \/ \E t \in Targets : Exit(t)
    \/ \E b \in Buttons : FilterClick(b)
    \/ Reload

PageSpec == PageInit /\ [][PageNext]_vars

\* the stats counter for every target, with and without reduced motion; an
\* animation frame that was requested does come
StatsInit ==
    /\ markup = Elements
    /\ N = 1
    /\ index = 0
    /\ timers = SetInterval(EmptyTimers, sliderInterval)
    /\ interval = FreshId(EmptyTimers)
    /\ slideActive = {0}
    /\ dotActive = {0}
    /\ hover = FALSE
    /\ startX = 0
    /\ endX = 0
    /\ sinceNav = 0
    /\ threw = FALSE
    /\ lastOp = "init"
    /\ arg = 0
    /\ calls = <<>>
    /\ FormEmpty
    /\ cat = [i \in Items |-> "a"]
    /\ btnMarkup = {"all"}
    /\ statTarget \in 0..MaxTarget
    /\ \E reduced \in BOOLEAN : PageLoaded("none", FALSE, reduced)

StatsNext ==
    \/ StatEnter
    \/ Frame

StatsSpec ==
    /\ StatsInit
    /\ [][StatsNext]_vars
    /\ WF_vars(Frame)

AutoNext ==
    \/ TimerFires
    \/ TimePasses

AutoSpec ==
    /\ AutoInit
    /\ [][AutoNext]_vars
    /\ WF_vars(TimePasses)
    /\ WF_vars(TimerFires)

(***************************************************************************)
(* Properties                                                             *)
(***************************************************************************)
TimerIds == DOMAIN timers
\* exactly one timer is armed, the one the closure holds, a full interval ahead
FreshlyArmed(tm, h) == DOMAIN tm = {h} /\ tm[h] = sliderInterval
\* the last event ran goTo
Navigated == calls # <<>> /\ calls[Len(calls)][1] = "goTo"
\* the argument of that goTo
GoToArg == calls[Len(calls)][2]
\* the non-negative remainder
TrueMod(i, n) == ((i % n) + n) % n

\* C1: with N >= 1, after any sequence of prev/next clicks, dot clicks,
\* swipes, hover events and timer ticks the active index is an integer in
\* 0..N-1.
C1_IndexInRange == N >= 1 => index \in 0..(N - 1)

\* previous() at index 0 wrapped to the last of at least two slides
C1_Witness ==
    /\ N >= 2
    /\ lastOp = "clickPrev"
    /\ Navigated /\ GoToArg = -1
    /\ index = N - 1

\* C2: for every N >= 1 and every integer i, goTo(i) leaves the active
\* index at the non-negative remainder ((i % N) + N) % N.
C2_GoToTrueModulo == (N >= 1 /\ Navigated) => index = TrueMod(GoToArg, N)

\* C3: with N >= 1, after any navigation exactly one slide and exactly one
\* dot are marked active, and both are the ones at the active index.
C3_OneActive == (N >= 1 /\ Navigated) => (slideActive = {index} /\ dotActive = {index})

\* a swipe moved a three-slide carousel to its last slide
C3_Witness ==
    /\ N = 3
    /\ lastOp = "gestureEnd"
    /\ Navigated
    /\ index = 2
    /\ slideActive = {2} /\ dotActive = {2}

\* C4: at most one autoplay timer is armed in every reachable state, and
\* after a mouse-leave (also a repeated one) exactly one is armed, a full
\* interval ahead, so an elapsed interval yields one tick.
C4_OneTimer ==
    /\ Cardinality(TimerIds) <= 1
    /\ (lastOp = "mouseleave" /\ HoverWired) => FreshlyArmed(timers, interval)

\* a mouse-leave re-armed the timer of a carousel that a tick had advanced
C4_Witness ==
    /\ lastOp = "mouseleave"
    /\ HoverWired
    /\ index = 1
    /\ Cardinality(TimerIds) = 1

\* C5: every navigation cancels and restarts the timer, so a tick never
\* comes earlier than a full sliderInterval after the most recent goTo.
C5_TickAfterFullInterval ==
    [][/\ (lastOp' = "tick" => sinceNav >= sliderInterval)
       /\ (Navigated' => FreshlyArmed(timers', interval'))]_vars

\* a tick advanced the carousel from its last slide to the first
C5_Witness ==
    /\ lastOp = "tick"
    /\ N = 3
    /\ GoToArg = 3
    /\ index = 0
    /\ sinceNav = 0

\* C6: a mouse-enter leaves no timer armed, also when repeated; while none
\* is armed no tick happens, and only a mouse-leave or a navigation arms
\* one again; a navigation does so even while the pointer is over the slider.
C6_PauseCancels ==
    [][/\ (lastOp' = "mouseenter" /\ HoverWired => TimerIds' = {})
       /\ (TimerIds = {} => lastOp' # "tick")
       /\ (TimerIds = {} /\ TimerIds' # {} => lastOp' = "mouseleave" \/ Navigated')
       /\ (hover' /\ Navigated' => FreshlyArmed(timers', interval'))]_vars

\* the pointer entered the slider of a running carousel
C6_Witness ==
    /\ lastOp = "mouseenter"
    /\ HoverWired
    /\ hover
    /\ index = 1
    /\ TimerIds = {}

\* C7: on a gesture end over a complete carousel, with delta = startX - endX:
\* delta > 50 runs nextSlide once, delta < -50 runs prevSlide once, anything
\* else navigates nowhere; a gesture start overwrites the recorded start.
C7_Swipe ==
    [][/\ (lastOp' = "gestureStart" /\ SwipeWired => startX' = arg')
       /\ (lastOp' = "gestureEnd" /\ SwipeWired /\ N >= 1 =>
              LET delta == startX - arg' IN
              /\ endX' = arg'
              /\ delta > SwipeThreshold =>
                     /\ calls' = <<<<"nextSlide", 0>>, <<"goTo", index + 1>>>>
                     /\ index' = TrueMod(index + 1, N)
              /\ delta < -SwipeThreshold =>
                     /\ calls' = <<<<"prevSlide", 0>>, <<"goTo", index - 1>>>>
                     /\ index' = TrueMod(index - 1, N)
              /\ delta \in (-SwipeThreshold)..SwipeThreshold =>
                     /\ calls' = <<>>
                     /\ UNCHANGED carouselVars)]_vars

\* the gesture 200 -> 140 moved the carousel on by one slide
C7_Witness ==
    /\ lastOp = "gestureEnd"
    /\ startX = 200 /\ endX = 140
    /\ N >= 2
    /\ calls = <<<<"nextSlide", 0>>, <<"goTo", 1>>>>
    /\ index = 1

\* the button a gesture end clicks is not in the document
ClicksMissing(sx, ex) ==
    \/ sx - ex > SwipeThreshold /\ "next" \notin markup
    \/ ex - sx > SwipeThreshold /\ "prev" \notin markup

C9_OneInFlight ==
    /\ inflight \in {0, 1}
    /\ isSubmitting <=> inflight = 1
    /\ (lastOp = "submit" /\ calls # <<>>) => status = "Sending..."

\* a submit event with valid fields arrived while a request was pending and
\* started nothing
C9_Witness ==
    /\ lastOp = "submit"
    /\ Valid(errors)
    /\ calls = <<>>
    /\ inflight = 1

\* exactly one "@", no white space, something before the "@", and after it a
\* "." with something on both sides
Count(s, c) == Cardinality({k \in 1..Len(s) : s[k] = c})
HasEmailShape(s) ==
    /\ Count(s, "@") = 1
    /\ Count(s, " ") = 0
    /\ LET at == CHOOSE k \in 1..Len(s) : s[k] = "@" IN
       /\ at > 1
       /\ \E d \in (at + 2)..(Len(s) - 1) : s[d] = "."
ShouldFlag(f, v) == Trim(v) = <<>> \/ (f = "email" /\ ~HasEmailShape(Trim(v)))

\* C10: a submit event flags exactly the fields whose trimmed text is empty
\* or, for the e-mail, lacks the shape local@domain.tld, and starts a request,
\* exactly one, if and only if no field is flagged and none is pending.
C10_ValidateAndSend ==
    [][lastOp' = "submit" =>
          /\ \A f \in Fields : (errors'[f] # "") <=> ShouldFlag(f, values[f])
          /\ (inflight' = inflight + 1) <=> (Valid(errors') /\ ~isSubmitting)
          /\ inflight' \in {inflight, inflight + 1}
          /\ UNCHANGED values]_vars

\* submit flagged a malformed e-mail address alone and sent nothing
C10_Witness ==
    /\ lastOp = "submit"
    /\ values["email"] = <<"a", "@", "a", ".">>
    /\ errors["email"] = "invalid"
    /\ errors["name"] = "" /\ errors["message"] = ""
    /\ inflight = 0

\* C11: a settling request ends in one of two ways: a 2xx status shows the
\* success text and resets the form; any other status, or a rejected fetch,
\* shows the failure text and leaves the fields; nothing is thrown and no
\* request is started again.
C11_TwoOutcomes ==
    [][lastOp' = "settle" =>
          /\ ~threw'
          /\ calls' = <<>>
          /\ inflight' = inflight - 1
          /\ IF arg' >= 200 /\ arg' <= 299
             THEN status' = "Message sent" /\ values' = [f \in Fields |-> <<>>]
             ELSE status' = "Failed to send" /\ values' = values]_vars

\* a 404 answer left the failure text and the typed e-mail address
C11_Witness ==
    /\ lastOp = "settle"
    /\ arg = 404
    /\ status = "Failed to send"
    /\ values["email"] = ValidEmail
    /\ ~isSubmitting

\* C12 as claimed: whatever elements the document lacks, init() raises
\* nothing and the routines after initTestimonials are initialized too.
C12_InitIsolated ==
    lastOp = "init" => (~threw /\ FormWired /\ ("slider" \in markup => SwipeWired))

\* C15 as claimed: a constructed carousel has exactly one active slide, the
\* one at the active index, and the matching dot, from construction on.
C15_AlwaysOneActive ==
    (N >= 1 /\ Constructed) => (slideActive = {index} /\ dotActive = {index})

\* C18: every tick advances the index by one modulo N and leaves the timer
\* freshly armed; left alone, the carousel shows every slide again and again.
C18_AutoplayCycles ==
    /\ [][lastOp' = "tick" =>
             /\ index' = (index + 1) % N
             /\ FreshlyArmed(timers', interval')]_vars
    /\ \A k \in 0..MaxN : []<>(k < N => index = k)

\* a tick moved a three-slide carousel to its last slide
C18_Witness ==
    /\ lastOp = "tick"
    /\ N = 3
    /\ GoToArg = 2
    /\ index = 2
    /\ slideActive = {2}

C20_OnlyGoToWrites ==
    [][/\ (\/ lastOp' \in {"mouseenter", "mouseleave", "gestureStart"}
           \/ /\ lastOp' = "gestureEnd"
              /\ startX - arg' <= SwipeThreshold
              /\ arg' - startX <= SwipeThreshold)
          => UNCHANGED <<index, slideActive, dotActive>>
       /\ (index' # index => Navigated')]_vars

\* a gesture of exactly 50 px ended on the second slide and moved nothing
C20_Witness ==
    /\ lastOp = "gestureEnd"
    /\ startX = 200 /\ endX = 150
    /\ calls = <<>>
    /\ index = 1
    /\ slideActive = {1}

\* C13: the scroll-reveal callback marks a target at most once; a target it
\* marked, and without reduced motion any target in the viewport, holds
\* 'revealed'; under reduced motion it marks nothing; short of a reload no
\* step removes the marker or a mark.
C13_RevealOnce ==
    /\ [](\A t \in Targets :
            /\ marks[t] <= 1
            /\ (marks[t] = 1 => t \in revealed)
            /\ (reducedMotion => marks[t] = 0)
            /\ (~reducedMotion /\ t \in inView => t \in revealed))
    /\ [][lastOp' # "reload" =>
             /\ revealed \subseteq revealed'
             /\ \A t \in Targets : marks[t] <= marks'[t]]_vars

\* target 0 has just been marked on entry, while item 1, marked earlier, is
\* out of the viewport again
C13_Witness ==
    /\ lastOp = "enter"
    /\ arg = 0
    /\ marks[0] = 1 /\ 0 \in revealed /\ 0 \notin observed
    /\ marks[1] = 1 /\ 1 \in revealed /\ 1 \notin inView

\* C14: a toggle flips data-theme and stores the new value; only a toggle
\* writes the stored value; a reload with a stored value starts with it; the
\* attribute is 'dark' or 'light' and so is the stored value once there is one.
C14_ThemeToggle ==
    /\ [](/\ themeAttr \in {"dark", "light"}
          /\ stored \in {"none", "dark", "light"})
    /\ [][/\ (lastOp' = "toggle" =>
                 /\ themeAttr' # themeAttr
                 /\ stored' = themeAttr')
          /\ (stored' # stored => lastOp' = "toggle")
          /\ (lastOp' = "reload" /\ stored # "none" => themeAttr' = stored)]_vars

\* a reload came up in the stored light theme
C14_Witness ==
    /\ lastOp = "reload"
    /\ stored = "light"
    /\ themeAttr = "light"

\* C17: once a category is selected, an item is shown exactly if the
\* category is 'all' or its own and hidden otherwise, and the clicked button
\* is the only active one.
C17_FilterShows ==
    selected # "none" =>
        /\ \A i \in Items :
              /\ display[i] = "block" <=> (selected = "all" \/ cat[i] = selected)
              /\ display[i] = "none" <=> ~(selected = "all" \/ cat[i] = selected)
        /\ activeBtn = {selected}

\* category b selected on a page whose markup had 'all' active
C17_Witness ==
    /\ selected = "b"
    /\ cat[1] = "a" /\ cat[2] = "b"
    /\ display[1] = "none" /\ display[2] = "block"
    /\ activeBtn = {"b"}
    /\ btnMarkup = {"all"}

\* C16 as claimed: for a target T >= 1 the counter never shows more than T,
\* is finished by its 100th step and not before, ends showing exactly T, and
\* under reduced motion shows T without a single step.
C16_HundredSteps ==
    statTarget >= 1 =>
        /\ statText <= statTarget
        /\ statCalls <= Steps
        /\ (statPhase = "done" => statText = statTarget)
        /\ (statPhase = "done" /\ ~reducedMotion => statCalls = Steps)
        /\ (reducedMotion => statCalls = 0 /\ statPhase = "done")

====
